---- MODULE Spec2Model ----
(***************************************************************************)
(* Model of transl-epub (main.go): the archive loop of main and the        *)
(* extract / translate / split / reinject protocol of processHTMLContent.  *)
(*                                                                         *)
(* Strings are sequences of characters.  The delimiter "\n---\n" is one    *)
(* character of the model's alphabet, so strings.Join and strings.Split    *)
(* are computed on sequences exactly as Go computes them on bytes.         *)
(*                                                                         *)
(* A parsed document (a tree of html.Node) is a sequence of nodes in        *)
(* document (pre-order) order, each with its depth; node 0 is the root.    *)
(***************************************************************************)
EXTENDS Naturals, Sequences, FiniteSets

\* ------------------------------------------------------------------ bounds
MaxNodes == 3
MaxTextLen == 3
MaxRespLen == 2
MaxMembers == 2

\* --------------------------------------------------------------- characters
Delim == "\n---\n"

\* unicode.IsSpace, as used by strings.TrimSpace
IsSpace(c) == c \in {" ", "\t", "\n", "\r", "\f"}

\* the cutset " \t\n\r" of strings.TrimLeft / strings.TrimRight
InCutset(c) == c \in {" ", "\t", "\n", "\r"}

\* the characters of node texts: a letter, cutset whitespace, a form feed
\* (whitespace outside the cutset), and the delimiter itself
TextChars == {"a", " ", "\n", "\f", Delim}

\* the characters of the backend's answers
RespChars == {"x", " ", Delim}

\* ------------------------------------------------------------------ strings
RECURSIVE DropWhileSpace(_)
DropWhileSpace(s) ==
  IF s # <<>> /\ IsSpace(Head(s)) THEN DropWhileSpace(Tail(s)) ELSE s

RECURSIVE DropEndWhileSpace(_)
DropEndWhileSpace(s) ==
  IF s # <<>> /\ IsSpace(s[Len(s)])
  THEN DropEndWhileSpace(SubSeq(s, 1, Len(s) - 1)) ELSE s

TrimSpace(s) == DropEndWhileSpace(DropWhileSpace(s))

RECURSIVE TrimLeft(_)
TrimLeft(s) ==
  IF s # <<>> /\ InCutset(Head(s)) THEN TrimLeft(Tail(s)) ELSE s

RECURSIVE TrimRight(_)
TrimRight(s) ==
  IF s # <<>> /\ InCutset(s[Len(s)])
  THEN TrimRight(SubSeq(s, 1, Len(s) - 1)) ELSE s

RECURSIVE Join(_, _)
Join(elems, sep) ==
  IF elems = <<>> THEN <<>>
  ELSE IF Len(elems) = 1 THEN elems[1]
  ELSE elems[1] \o sep \o Join(Tail(elems), sep)

\* strings.Split(s, sep) for a one-character sep: always at least one element
RECURSIVE Split(_, _)
Split(s, sep) ==
  IF \A k \in 1..Len(s) : s[k] # sep THEN <<s>>
  ELSE LET k == CHOOSE j \in 1..Len(s) :
                  s[j] = sep /\ \A m \in 1..(j - 1) : s[m] # sep
       IN <<SubSeq(s, 1, k - 1)>> \o Split(SubSeq(s, k + 1, Len(s)), sep)

RECURSIVE StringsUpTo(_, _)
StringsUpTo(chars, n) ==
  IF n = 0 THEN {<<>>}
  ELSE LET shorter == StringsUpTo(chars, n - 1)
       IN shorter \cup {Append(s, c) : s \in shorter, c \in chars}

\* -------------------------------------------------------------------- trees
ElementNode == "ElementNode"
TextNode == "TextNode"

Depth(t, n) == IF n = 0 THEN 0 ELSE t[n].depth

\* n's children in sibling order (FirstChild, then NextSibling ...)
ChildSet(t, n) ==
  {j \in (n + 1)..Len(t) :
     /\ t[j].depth = Depth(t, n) + 1
     /\ \A k \in (n + 1)..j : t[k].depth > Depth(t, n)}

Sorted(S) ==
  [k \in 1..Cardinality(S) |->
     CHOOSE x \in S : Cardinality({y \in S : y < x}) = k - 1]

Children(t, n) == Sorted(ChildSet(t, n))

Parent(t, j) ==
  IF t[j].depth = 1 THEN 0
  ELSE CHOOSE p \in 1..(j - 1) :
         /\ t[p].depth = t[j].depth - 1
         /\ \A k \in (p + 1)..(j - 1) : t[k].depth >= t[j].depth

IsP(t, n) == n # 0 /\ t[n].Type = ElementNode /\ t[n].Data = "p"

\* the trees html.Parse can return, up to a number of nodes: a text node is a
\* leaf, adjacent text siblings are merged, and a p start tag closes an open p
\* unless another element stands between them
TreeTexts == {<<" ", "a", "\n">>, <<" ">>}

NextNodes(t) ==
  LET last == Len(t)
      maxd == IF last = 0 THEN 1
              ELSE IF t[last].Type = ElementNode THEN t[last].depth + 1
              ELSE t[last].depth
      par(d) == IF d = 1 THEN 0
                ELSE CHOOSE p \in 1..last :
                       /\ t[p].depth = d - 1
                       /\ \A k \in (p + 1)..last : t[k].depth >= d
  IN  {[Type |-> ElementNode, Data |-> "div", depth |-> d] : d \in 1..maxd}
      \cup {[Type |-> ElementNode, Data |-> "p", depth |-> d] :
              d \in {e \in 1..maxd : ~IsP(t, par(e))}}
      \cup {[Type |-> TextNode, Data |-> s, depth |-> d] :
              s \in TreeTexts,
              d \in {e \in 1..maxd :
                       ~(last > 0 /\ t[last].Type = TextNode
                                  /\ t[last].depth = e)}}

RECURSIVE TreesOfSize(_)
TreesOfSize(n) ==
  IF n = 0 THEN {<<>>}
  ELSE UNION {{Append(t, nd) : nd \in NextNodes(t)} : t \in TreesOfSize(n - 1)}


\* the closure f of processHTMLContent: at a p element, its direct non-blank
\* text children are appended first; then every child is visited
Collect(t, n) ==
  IF IsP(t, n)
  THEN SelectSeq(Children(t, n),
                 LAMBDA c : t[c].Type = TextNode /\ TrimSpace(t[c].Data) # <<>>)
  ELSE <<>>

RECURSIVE f(_, _)
RECURSIVE fChildren(_, _)
f(t, n) == Collect(t, n) \o fChildren(t, Children(t, n))
fChildren(t, cs) ==
  IF cs = <<>> THEN <<>> ELSE f(t, Head(cs)) \o fChildren(t, Tail(cs))

textNodesOf(doc) == f(doc, 0)

\* the fragments taken without strings.TrimSpace
textsToTranslateUntrimmed(doc, textNodes) ==
  [k \in 1..Len(textNodes) |-> doc[textNodes[k]].Data]

textsToTranslateOf(doc, textNodes) ==
  [k \in 1..Len(textNodes) |-> TrimSpace(doc[textNodes[k]].Data)]

\* ---------------------------------------------------------------- documents
El(tag, d) == [Type |-> ElementNode, Data |-> tag, depth |-> d]
Tx(s, d) == [Type |-> TextNode, Data |-> s, depth |-> d]

\* <p> a\n<button><p> a\n</p></button> a\n</p> and the same without the
\* leading text: a p element below a p element, which the parser builds when a
\* scoping element (button, object, td ...) stands between the two
NestedTrees ==
  { <<El("p", 1), Tx(<<" ", "a", "\n">>, 2), El("div", 2), El("p", 3),
      Tx(<<" ", "a", "\n">>, 4), Tx(<<" ", "a", "\n">>, 2)>>,
    <<El("p", 1), El("div", 2), El("p", 3),
      Tx(<<" ", "a", "\n">>, 4), Tx(<<" ", "a", "\n">>, 2)>> }

\* <p>Hi</p><p>  Bye  </p>, and <p> a\n<br> a\n</p>: two fragments each
TwoParas ==
  <<El("p", 1), Tx(<<"a">>, 2), El("p", 1), Tx(<<" ", "a", " ">>, 2)>>

SplitPara ==
  <<El("p", 1), Tx(<<" ", "a", "\n">>, 2), El("div", 2),
    Tx(<<"\f", "a", " ">>, 2)>>

\* <p>text</p> for every text up to a length
OneTextTrees ==
  {<<El("p", 1), Tx(s, 2)>> :
     s \in StringsUpTo(TextChars, MaxTextLen) \ {<<>>}}

Trees ==
  UNION {TreesOfSize(n) : n \in 0..MaxNodes}
  \cup NestedTrees \cup {TwoParas, SplitPara} \cup OneTextTrees

\* A member's bytes.  form "raw" is markup as its author wrote it, "canon" is
\* the serializer's own output; whole = FALSE marks a proper prefix of the
\* payload (what a failed read had delivered).
Bytes(t, form) == [tree |-> t, form |-> form, whole |-> TRUE]
Truncated(b) == [b EXCEPT !.whole = FALSE]

\* html.Parse and html.Render: rendering gives canonical markup, so that
\* Render(Parse(b)) = b only for a b that is canonical already
Parse(b) == b.tree
Render(doc) == Bytes(doc, "canon")

\* -------------------------------------------------------------- translateText
\* what the backend (model.GenerateContent) can answer
Responses == StringsUpTo(RespChars, MaxRespLen)

Backend ==
  {[kind |-> "apiError", text |-> <<>>], [kind |-> "noText", text |-> <<>>]}
  \cup {[kind |-> "text", text |-> r] : r \in Responses}

PromptHeader == "You are a professional translator. ... Original Text:\n"

\* sent: the prompts handed to the backend by this call
translateText(text, backend) ==
  IF TrimSpace(text) = <<>>
  THEN [text |-> <<>>, err |-> FALSE, sent |-> <<>>]
  ELSE LET prompt == <<PromptHeader>> \o text
       IN IF backend.kind = "text"
          THEN [text |-> backend.text, err |-> FALSE, sent |-> <<prompt>>]
          ELSE [text |-> <<>>, err |-> TRUE, sent |-> <<prompt>>]

\* --------------------------------------------------------- processHTMLContent
combinedTextOf(textsToTranslate) == Join(textsToTranslate, <<Delim>>)

translatedTextsOf(translatedCombinedText) ==
  Split(translatedCombinedText, Delim)

\* only too few segments count as a mismatch
CountMismatchWhenFewer(translatedTexts, textsToTranslate) ==
  Len(translatedTexts) < Len(textsToTranslate)

CountMismatch(translatedTexts, textsToTranslate) ==
  Len(translatedTexts) # Len(textsToTranslate)

\* the whitespace runs taken with unicode.IsSpace, as strings.TrimSpace does
NewDataUnicodeSpace(originalText, translated) ==
  LET leadingSpace ==
        SubSeq(originalText, 1,
               Len(originalText) - Len(DropWhileSpace(originalText)))
      trailingSpace ==
        SubSeq(originalText, Len(DropEndWhileSpace(originalText)) + 1,
               Len(originalText))
  IN leadingSpace \o translated \o trailingSpace

\* the new node.Data built from the node's text and its translated segment
NewData(originalText, translated) ==
  LET leadingSpace ==
        SubSeq(originalText, 1, Len(originalText) - Len(TrimLeft(originalText)))
      trailingSpace ==
        SubSeq(originalText, Len(TrimRight(originalText)) + 1, Len(originalText))
  IN leadingSpace \o translated \o trailingSpace

\* the segments applied from the last to the first
RECURSIVE ReinjectReversed(_, _, _, _)
ReinjectReversed(doc, textNodes, translatedTexts, k) ==
  IF k > Len(textNodes) THEN doc
  ELSE ReinjectReversed(
         [doc EXCEPT ![textNodes[k]].Data =
            NewData(doc[textNodes[k]].Data,
                    translatedTexts[Len(textNodes) - k + 1])],
         textNodes, translatedTexts, k + 1)

\* the loop over textNodes: iteration k rewrites node textNodes[k]
RECURSIVE Reinject(_, _, _, _)
Reinject(doc, textNodes, translatedTexts, k) ==
  IF k > Len(textNodes) THEN doc
  ELSE Reinject([doc EXCEPT ![textNodes[k]].Data =
                               NewData(doc[textNodes[k]].Data, translatedTexts[k])],
                textNodes, translatedTexts, k + 1)

Return(html, err, doc, textNodes, texts, combined, translated, sent) ==
  [html |-> html, err |-> err, doc |-> doc, textNodes |-> textNodes,
   textsToTranslate |-> texts, translatedCombinedText |-> combined,
   translatedTexts |-> translated, sent |-> sent]

ParseFailed(htmlContent) ==
  Return(htmlContent, "parse", <<>>, <<>>, <<>>, <<>>, <<>>, <<>>)

\* the unchanged tree serialized instead of the input returned
NothingToTranslateRendered(htmlContent, doc) ==
  Return(Render(doc), "", doc, <<>>, <<>>, <<>>, <<>>, <<>>)

NothingToTranslate(htmlContent, doc) ==
  Return(htmlContent, "", doc, <<>>, <<>>, <<>>, <<>>, <<>>)

\* html.Render's error dropped: the buffer is returned as far as it was filled
RenderedIgnoringError(htmlContent, doc, renderOk) ==
  [html |-> IF renderOk THEN Render(doc) ELSE Truncated(Render(doc)),
   err |-> ""]

Rendered(htmlContent, doc, renderOk) ==
  IF renderOk THEN [html |-> Render(doc), err |-> ""]
  ELSE [html |-> htmlContent, err |-> "render"]

\* env: whether html.Parse and html.Render succeed, and the backend's answer
processHTMLContent(htmlContent, env) ==
  IF ~env.parseOk THEN ParseFailed(htmlContent)
  ELSE
  LET doc == Parse(htmlContent)
      textNodes == textNodesOf(doc)
      textsToTranslate == textsToTranslateOf(doc, textNodes)
  IN
  IF Len(textsToTranslate) = 0 THEN NothingToTranslate(htmlContent, doc)
  ELSE
  LET tr == translateText(combinedTextOf(textsToTranslate), env.backend)
  IN
  IF tr.err
  THEN Return(htmlContent, "service", doc, textNodes, textsToTranslate,
              <<>>, <<>>, tr.sent)
  ELSE
  LET translatedTexts == translatedTextsOf(tr.text)
  IN
  IF CountMismatch(translatedTexts, textsToTranslate)
  THEN Return(htmlContent, "", doc, textNodes, textsToTranslate,
              tr.text, translatedTexts, tr.sent)
  ELSE
  LET newDoc == Reinject(doc, textNodes, translatedTexts, 1)
      r == Rendered(htmlContent, newDoc, env.renderOk)
  IN Return(r.html, r.err, newDoc, textNodes, textsToTranslate,
            tr.text, translatedTexts, tr.sent)

Envs ==
  {[parseOk |-> FALSE, backend |-> [kind |-> "noText", text |-> <<>>],
    renderOk |-> TRUE]}
  \cup [parseOk : {TRUE}, backend : Backend, renderOk : BOOLEAN]

\* ----------------------------------------------------------------------- main
HtmlName == <<"page", ".html">>
XhtmlName == <<"ch1", ".xhtml">>
BinName == <<"image", ".bin">>
BakName == <<"page", ".html", ".bak">>

\* strings.HasSuffix for a suffix that is one element of the name
HasSuffix(name, suffix) == name # <<>> /\ name[Len(name)] = suffix

\* strings.Contains in place of strings.HasSuffix
IsMarkupAnywhere(name) ==
  \E k \in 1..Len(name) : name[k] \in {".html", ".xhtml"}

IsMarkup(name) == HasSuffix(name, ".html") \/ HasSuffix(name, ".xhtml")

Para == <<El("p", 1), Tx(<<" ", "a", "\n">>, 2)>>

\* text outside any p element: nothing to translate
NoPara == <<El("div", 1), Tx(<<" ", "a", "\n">>, 2)>>

\* the members of the multi-member archives
PoolMembers ==
  { [name |-> HtmlName, data |-> Bytes(Para, "raw")],
    [name |-> XhtmlName, data |-> Bytes(NoPara, "canon")],
    [name |-> BinName, data |-> Bytes(<<>>, "raw")],
    [name |-> BakName, data |-> Bytes(Para, "raw")] }

RECURSIVE ArchivesOfLen(_)
ArchivesOfLen(n) ==
  IF n = 0 THEN {<<>>}
  ELSE UNION {{Append(a, m) :
                 m \in {q \in PoolMembers :
                          \A k \in 1..Len(a) : a[k].name # q.name}} :
              a \in ArchivesOfLen(n - 1)}

\* two markup members with text to translate
Chapters ==
  <<[name |-> HtmlName, data |-> Bytes(Para, "raw")],
    [name |-> XhtmlName, data |-> Bytes(TwoParas, "canon")]>>

\* r.File: member names are unique within an archive
Archives ==
  UNION {ArchivesOfLen(n) : n \in 1..MaxMembers}
  \cup {Chapters}
  \cup {<<[name |-> HtmlName, data |-> Bytes(t, "raw")]>> : t \in Trees}

VARIABLES
  archive,    \* r.File: the input archive's members, in order
  i,          \* the for loop's position in r.File
  pc,         \* "loop" while main iterates, "done" after it returned
  out,        \* the entries of the zip writer w, in creation order
  finalized,  \* w.Close() has run (the deferred call)
  calls,      \* the prompts sent to the backend, with the member sending
  trace       \* one record per loop iteration: what it did

vars == <<archive, i, pc, out, finalized, calls, trace>>

NoReturn == Return(<<>>, "", <<>>, <<>>, <<>>, <<>>, <<>>, <<>>)

Step(member, path, r) == [member |-> member, path |-> path, r |-> r]

Init ==
  /\ archive \in Archives
  /\ i = 1
  /\ pc = "loop"
  /\ out = <<>>
  /\ finalized = FALSE
  /\ calls = <<>>
  /\ trace = <<>>

InLoop == pc = "loop" /\ i <= Len(archive)

\* file.Open() fails: log, return (the deferred Close runs)
OpenFailReturn ==
  /\ pc = "loop" /\ i <= Len(archive)
  /\ trace' = Append(trace, [member |-> i, path |-> "openError", r |-> NoReturn])
  /\ i' = i + 1
  /\ pc' = "done"
  /\ finalized' = TRUE
  /\ UNCHANGED <<archive, out, calls>>

\* file.Open() fails: log, continue
OpenFail ==
  /\ InLoop
  /\ trace' = Append(trace, Step(i, "openError", NoReturn))
  /\ i' = i + 1
  /\ UNCHANGED <<archive, pc, out, finalized, calls>>

\* w.Create(file.Name) fails: log, close the reader, continue
CreateFail ==
  /\ InLoop
  /\ trace' = Append(trace, Step(i, "createError", NoReturn))
  /\ i' = i + 1
  /\ UNCHANGED <<archive, pc, out, finalized, calls>>

\* markup member, io.ReadAll fails: what was read is written, continue
ReadFail ==
  /\ InLoop
  /\ IsMarkup(archive[i].name)
  /\ \E contentBytes \in {archive[i].data, Truncated(archive[i].data)} :
       out' = Append(out, [name |-> archive[i].name, data |-> contentBytes])
  /\ trace' = Append(trace, Step(i, "readError", NoReturn))
  /\ i' = i + 1
  /\ UNCHANGED <<archive, pc, finalized, calls>>

\* on an error the entry is left without any write
WrittenNothingOnError(contentBytes, r) ==
  IF r.err # "" THEN Truncated(contentBytes) ELSE r.html

Written(contentBytes, r) == IF r.err # "" THEN contentBytes ELSE r.html

\* markup member read in full: processHTMLContent, then one fw.Write.
\* string(contentBytes) and []byte(translatedHTML) keep every byte in Go, so
\* the payload is passed as it is.
Translate ==
  /\ InLoop
  /\ IsMarkup(archive[i].name)
  /\ \E env \in Envs :
       LET contentBytes == archive[i].data
           r == processHTMLContent(contentBytes, env)
       IN /\ out' = Append(out, [name |-> archive[i].name,
                                 data |-> Written(contentBytes, r)])
          /\ calls' = calls \o [k \in 1..Len(r.sent) |->
                                  [member |-> i, prompt |-> r.sent[k]]]
          /\ trace' = Append(trace, Step(i, "markup", r))
  /\ i' = i + 1
  /\ UNCHANGED <<archive, pc, finalized>>

\* any other member: io.Copy
Copy ==
  /\ InLoop
  /\ ~IsMarkup(archive[i].name)
  /\ out' = Append(out, [name |-> archive[i].name, data |-> archive[i].data])
  /\ trace' = Append(trace, Step(i, "copied", NoReturn))
  /\ i' = i + 1
  /\ UNCHANGED <<archive, pc, finalized, calls>>

\* io.Copy fails: the error is logged, what was copied stays in the entry
CopyFail ==
  /\ InLoop
  /\ ~IsMarkup(archive[i].name)
  /\ \E copied \in {archive[i].data, Truncated(archive[i].data)} :
       out' = Append(out, [name |-> archive[i].name, data |-> copied])
  /\ trace' = Append(trace, Step(i, "copyError", NoReturn))
  /\ i' = i + 1
  /\ UNCHANGED <<archive, pc, finalized, calls>>

\* the loop is over: main prints and returns, the deferred w.Close() runs
Finish ==
  /\ pc = "loop"
  /\ i > Len(archive)
  /\ pc' = "done"
  /\ finalized' = TRUE
  /\ UNCHANGED <<archive, i, out, calls, trace>>

Next ==
  OpenFail \/ CreateFail \/ ReadFail \/ Translate \/ Copy \/ CopyFail \/ Finish

Spec == Init /\ [][Next]_vars

\* main is one sequential thread: it takes its next step whenever it has one
FairSpec == Spec /\ WF_vars(Next)

\* ------------------------------------------------------------ the properties
\* vocabulary of the properties, stated on nodes and positions rather than
\* through the operators of processHTMLContent

EndsInMarkupExtension(name) == name[Len(name)] \in {".html", ".xhtml"}

Steps == {trace[j] : j \in 1..Len(trace)}

Input(e) == archive[e.member].data

HasEntry(e) == \E k \in 1..Len(out) : out[k].name = archive[e.member].name

EntryData(e) ==
  out[CHOOSE k \in 1..Len(out) : out[k].name = archive[e.member].name].data

CallsOf(m) == SelectSeq(calls, LAMBDA c : c.member = m)

\* a text node that is a direct child of a p element and not blank
Eligible(t, n) ==
  /\ t[n].Type = TextNode
  /\ \E k \in 1..Len(t[n].Data) : ~IsSpace(t[n].Data[k])
  /\ IsP(t, Parent(t, n))

EligibleNodes(t) == {n \in 1..Len(t) : Eligible(t, n)}

\* the member went through html.Parse and the tree was walked
Walked(e) == e.path = "markup" /\ e.r.err # "parse"

\* the backend answered with text
Answered(e) ==
  /\ Walked(e)
  /\ e.r.err # "service"
  /\ Len(e.r.textNodes) >= 1

DelimPositions(s) == {k \in 1..Len(s) : s[k] = Delim}

SegmentCount(s) == Cardinality(DelimPositions(s)) + 1

\* the k-th delimiter-separated segment of s
Segment(s, k) ==
  LET pos == Sorted(DelimPositions(s))
      from == IF k = 1 THEN 1 ELSE pos[k - 1] + 1
      to == IF k = SegmentCount(s) THEN Len(s) ELSE pos[k] - 1
  IN SubSeq(s, from, to)

Aligned(e) ==
  Answered(e) /\ SegmentCount(e.r.translatedCombinedText) = Len(e.r.textNodes)

Misaligned(e) ==
  Answered(e) /\ SegmentCount(e.r.translatedCombinedText) # Len(e.r.textNodes)

\* the longest prefix / suffix of s made of space, tab, newline, carriage return
LeadLen(s) ==
  CHOOSE n \in 0..Len(s) :
    /\ \A k \in 1..n : InCutset(s[k])
    /\ n < Len(s) => ~InCutset(s[n + 1])

TrailLen(s) ==
  CHOOSE n \in 0..Len(s) :
    /\ \A k \in (Len(s) - n + 1)..Len(s) : InCutset(s[k])
    /\ n < Len(s) => ~InCutset(s[Len(s) - n])

\* C1: when the response splits into a number of segments other than the
\* number N >= 1 of fragments, no node of the tree is rewritten and the member
\* is written with exactly its input bytes
AllOrNothing ==
  \A e \in Steps :
    Misaligned(e) =>
      /\ e.r.doc = Input(e).tree
      /\ HasEntry(e)
      /\ EntryData(e) = Input(e)

AllOrNothingWitness ==
  \E e \in Steps :
    /\ Misaligned(e)
    /\ Len(e.r.textNodes) = 2
    /\ SegmentCount(e.r.translatedCombinedText) = 3
    /\ Input(e).form = "raw"
    /\ HasEntry(e)

\* C2: when the response splits into exactly N segments, the node that
\* produced fragment k holds segment k between its own whitespace, for every
\* k, no node is the source of two fragments, and no other node changes
AlignmentLaw ==
  \A e \in Steps :
    Aligned(e) =>
      LET old == Input(e).tree
          new == e.r.doc
          nodes == e.r.textNodes
      IN /\ Len(new) = Len(old)
         /\ \A k \in 1..Len(nodes) :
              LET n == nodes[k]
                  lead == LeadLen(old[n].Data)
                  trail == TrailLen(old[n].Data)
              IN /\ e.r.textsToTranslate[k] = TrimSpace(old[n].Data)
                 /\ SubSeq(new[n].Data, lead + 1, Len(new[n].Data) - trail)
                      = Segment(e.r.translatedCombinedText, k)
         /\ \A k, m \in 1..Len(nodes) : nodes[k] = nodes[m] => k = m
         /\ \A n \in 1..Len(old) :
              (\A k \in 1..Len(nodes) : nodes[k] # n) => new[n] = old[n]

AlignmentLawWitness ==
  \E e \in Steps :
    /\ Aligned(e)
    /\ Len(e.r.textNodes) = 2
    /\ Segment(e.r.translatedCombinedText, 1)
         # Segment(e.r.translatedCombinedText, 2)
    /\ e.r.err = ""

\* C3: every reinjected node holds L + translatedTexts[k] + R, L and R being
\* the longest leading and trailing runs of space, tab, newline and carriage
\* return of the node's original text
WhitespacePreservation ==
  \A e \in Steps :
    Aligned(e) =>
      \A k \in 1..Len(e.r.textNodes) :
        LET orig == Input(e).tree[e.r.textNodes[k]].Data
        IN e.r.doc[e.r.textNodes[k]].Data
             = SubSeq(orig, 1, LeadLen(orig))
               \o e.r.translatedTexts[k]
               \o SubSeq(orig, Len(orig) - TrailLen(orig) + 1, Len(orig))

\* a node "\fa\n": a form feed that TrimSpace strips and the cutset keeps
WhitespacePreservationWitness ==
  \E e \in Steps :
    /\ Aligned(e)
    /\ Input(e).tree[e.r.textNodes[1]].Data = <<"\f", "a", "\n">>
    /\ e.r.translatedTexts[1] = <<" ", "x">>

FailureFallback ==
  \A e \in Steps :
    (e.path = "markup" /\ e.r.err \in {"parse", "service", "render"}) =>
      /\ HasEntry(e)
      /\ EntryData(e) = Input(e)
      /\ i > e.member
      /\ finalized => Len(trace) = Len(archive)

\* a render failure after reinjection, on the first of two members, and the
\* second member handled after it
FailureFallbackWitness ==
  /\ Len(trace) = 2
  /\ trace[1].path = "markup"
  /\ trace[1].r.err = "render"
  /\ trace[1].r.doc # Input(trace[1]).tree
  /\ EntryData(trace[1]) = Input(trace[1])
  /\ trace[2].path = "markup"
  /\ trace[2].r.err = ""

\* the bytes a processed markup member may end with
TranslatedOrOriginal(e) == {Input(e), Render(e.r.doc)}

Skipped(e) == e.path \in {"openError", "createError"}

EmptyShortCircuit ==
  \A e \in Steps :
    (Walked(e) /\ EligibleNodes(Input(e).tree) = {}) =>
      /\ CallsOf(e.member) = <<>>
      /\ HasEntry(e)
      /\ EntryData(e) = Input(e)

\* a p element holding only blank text, in markup that is not canonical
EmptyShortCircuitWitness ==
  \E e \in Steps :
    /\ Walked(e)
    /\ EligibleNodes(Input(e).tree) = {}
    /\ \E n \in 1..Len(Input(e).tree) :
         /\ Input(e).tree[n].Type = TextNode
         /\ IsP(Input(e).tree, Parent(Input(e).tree, n))
    /\ Input(e).form = "raw"
    /\ HasEntry(e)

\* C8 as stated: the fragments are the eligible text nodes in depth-first
\* document order
DocumentOrder ==
  \A e \in Steps :
    Walked(e) => e.r.textNodes = Sorted(EligibleNodes(Input(e).tree))

\* C9: a parsed markup member with N >= 1 fragments causes exactly one call,
\* carrying its trimmed fragment texts joined by the delimiter in extraction
\* order; no call carries blank text; no member causes two calls
SingleCall ==
  /\ \A e \in Steps :
       (Walked(e) /\ EligibleNodes(Input(e).tree) # {}) =>
         /\ Len(CallsOf(e.member)) = 1
         /\ CallsOf(e.member)[1].prompt =
              <<PromptHeader>>
              \o Join([k \in 1..Len(e.r.textNodes) |->
                         TrimSpace(Input(e).tree[e.r.textNodes[k]].Data)],
                      <<Delim>>)
         /\ Len(e.r.textNodes) = Cardinality(EligibleNodes(Input(e).tree))
  /\ \A k \in 1..Len(calls) :
       \E m \in 2..Len(calls[k].prompt) : ~IsSpace(calls[k].prompt[m])
  /\ \A m \in 1..Len(archive) : Len(CallsOf(m)) <= 1

\* two members with fragments, one call each, the first one failed
SingleCallWitness ==
  /\ Len(calls) = 2
  /\ calls[1].member = 1
  /\ calls[2].member = 2
  /\ trace[1].r.err = "service"
  /\ Len(trace[2].r.textNodes) = 2

\* C10: whatever fails, the members are attempted once each in archive order,
\* the writer is closed only after the last of them, and main terminates
FailureIsolation ==
  /\ [](\A k \in 1..Len(trace) : trace[k].member = k)
  /\ [](i = Len(trace) + 1)
  /\ [](finalized => Len(trace) = Len(archive))
  /\ <>(pc = "done" /\ finalized)

FailureIsolationWitness ==
  /\ pc = "done"
  /\ finalized
  /\ Len(trace) = 2
  /\ trace[1].path \in {"openError", "createError", "readError"}
  /\ trace[2].path = "markup"
  /\ trace[2].r.err = ""
  /\ Len(trace[2].r.textNodes) >= 1
====
